---------------------------- MODULE Spec2Model ----------------------------
(***************************************************************************)
(* Model of the Kea DHCPv4 hook of crates/dhcp/src/kea: the callouts       *)
(* pkt4_receive and pkt4_send (callouts.cc), the option handlers of        *)
(* callouts.h and the loader (loader.cc).                                  *)
(*                                                                         *)
(* Representation.                                                         *)
(*  - A C++ string is a sequence of lexemes (Seq(STRING)); the lexeme ","  *)
(*    is the delimiter getAddresses splits on, every other lexeme is a     *)
(*    run of characters without a comma.  The empty string is << >>.       *)
(*  - A nullable char* is a record [null, s].                              *)
(*  - A uint32_t and an IPv4 address are 4-tuples of bytes (big endian).   *)
(*  - The options of a Pkt4 are a multimap: a function from option code    *)
(*    to the sequence of options stored under that code.                   *)
(*  - Library calls (Pkt4::addOption, Pkt::delOption, IOAddress,           *)
(*    OptionString, boost::any_cast) are modelled by their documented Kea  *)
(*    and boost behaviour at the place the code calls them.                *)
(***************************************************************************)
EXTENDS Integers, Sequences, FiniteSets, TLC

(***************************************************************************)
(* Bounds of the model.                                                    *)
(***************************************************************************)
\* Number of callout handles (requests) in flight in the pipeline.
NumReq == 2
\* Most options the response packet already carries when pkt4_send starts.
MaxPreset == 2
\* Most discovery setters that fail within one request.
MaxFail == 2
\* Most update_option calls made on one packet by the option harness.
MaxCalls == 2
\* Most addresses in a comma-separated address list given to getAddresses.
MaxAddrs == 3

(***************************************************************************)
(* Option codes.                                                           *)
(***************************************************************************)
DHO_SUBNET_MASK == 1
DHO_ROUTERS == 3
DHO_NAME_SERVERS == 5
DHO_DOMAIN_NAME_SERVERS == 6
DHO_HOST_NAME == 12
DHO_INTERFACE_MTU == 26
DHO_BROADCAST_ADDRESS == 28
DHO_NTP_SERVERS == 42
DHO_VENDOR_ENCAPSULATED_OPTIONS == 43
DHO_DHCP_REQUESTED_ADDRESS == 50
DHO_VENDOR_CLASS_IDENTIFIER == 60
DHO_BOOT_FILE_NAME == 67
DHO_DHCP_AGENT_OPTIONS == 82
DHO_SYSTEM == 93
DHO_MQTT_SERVER == 224
RAI_OPTION_AGENT_CIRCUIT_ID == 1
RAI_OPTION_REMOTE_ID == 2
RAI_OPTION_LINK_SELECTION == 5
IPV4_ADDR_SIZEB == 4

\* The codes the send phase writes (set_options and set_vendor_options).
RecognizedCodes ==
    { DHO_ROUTERS, DHO_NAME_SERVERS, DHO_DOMAIN_NAME_SERVERS, DHO_NTP_SERVERS,
      DHO_MQTT_SERVER, DHO_INTERFACE_MTU, DHO_SUBNET_MASK,
      DHO_BROADCAST_ADDRESS, DHO_HOST_NAME, DHO_BOOT_FILE_NAME,
      DHO_VENDOR_CLASS_IDENTIFIER, DHO_VENDOR_ENCAPSULATED_OPTIONS }

\* The codes resetAndAddOption has a case for.
HandledCodes == RecognizedCodes \ { DHO_VENDOR_ENCAPSULATED_OPTIONS }

\* The codes a response packet of the model can hold: the recognized ones
\* and one no handler knows (15, domain-name).
Codes == RecognizedCodes \cup { 15 }

\* The codes resetAndAddOption falls to its default branch for.
UnsupportedCodes == Codes \ HandledCodes

(***************************************************************************)
(* Values.                                                                 *)
(***************************************************************************)
ZeroU32 == <<0, 0, 0, 0>>

\* An option object.  Every shape has every field, unused ones empty.
Opt(code, shape, addrs, text, u32, u16, subs) ==
    [code |-> code, shape |-> shape, addrs |-> addrs, text |-> text,
     u32 |-> u32, u16 |-> u16, subs |-> subs]

\* The null OptionPtr.
NullOpt == Opt(0, "null", << >>, << >>, << >>, 0, << >>)

Option4AddrLst(code, addrs) ==
    Opt(code, "Option4AddrLst", addrs, << >>, << >>, 0, << >>)
OptionString(code, text) ==
    Opt(code, "OptionString", << >>, text, << >>, 0, << >>)
OptionUint32(code, v) ==
    Opt(code, "OptionInt<uint32_t>", << >>, << >>, v, 0, << >>)
OptionUint16(code, v) ==
    Opt(code, "OptionInt<uint16_t>", << >>, << >>, << >>, v, << >>)
OptionRaw(code, subs) ==
    Opt(code, "Option", << >>, << >>, << >>, 0, subs)

\* A sub-option of the vendor-encapsulated option.
SubOpt(code, shape, text, u32) ==
    [code |-> code, shape |-> shape, text |-> text, u32 |-> u32]

\* A nullable C string.
NullStr == [null |-> TRUE, s |-> << >>]
CStr(s) == [null |-> FALSE, s |-> s]

(***************************************************************************)
(* Strings and addresses.                                                  *)
(***************************************************************************)
\* The texts isc::asiolink::IOAddress parses, with the address each gives.
AddrText ==
    ("10.0.0.1" :> <<10, 0, 0, 1>>) @@ ("10.0.0.2" :> <<10, 0, 0, 2>>)

\* Index of the first delimiter of s, 0 when it has none.
FirstComma(s) ==
    IF \E i \in 1..Len(s) : s[i] = ","
    THEN CHOOSE i \in 1..Len(s) : s[i] = "," /\ \A j \in 1..(i - 1) : s[j] # ","
    ELSE 0

\* The pieces std::getline(ss, s, ',') yields until it fails: a piece ends
\* at a delimiter or at the end of the input, and nothing is read once the
\* input is exhausted (no final empty piece after a trailing delimiter).
RECURSIVE getline(_)
getline(s) ==
    IF s = << >> THEN << >>
    ELSE LET i == FirstComma(s)
         IN IF i = 0 THEN << s >>
            ELSE << SubSeq(s, 1, i - 1) >> \o getline(SubSeq(s, i + 1, Len(s)))

\* IOAddress(text) throws unless the text is one address.
IOAddressParses(piece) == Len(piece) = 1 /\ piece[1] \in DOMAIN AddrText
IOAddress(piece) == AddrText[piece[1]]

\* A getAddresses that stops after the first piece.
getAddressesFirst(ips) ==
    LET pieces == getline(ips)
    IN IF \A i \in 1..Len(pieces) : IOAddressParses(pieces[i])
       THEN [threw |-> FALSE,
             out |-> IF pieces = << >> THEN << >>
                     ELSE << IOAddress(pieces[1]) >>]
       ELSE [threw |-> TRUE, out |-> << >>]

\* getAddresses: one IOAddress per piece, in order; the first piece that
\* does not parse throws out of the function.
getAddresses(ips) ==
    LET pieces == getline(ips)
    IN IF \A i \in 1..Len(pieces) : IOAddressParses(pieces[i])
       THEN [threw |-> FALSE,
             out |-> [i \in 1..Len(pieces) |-> IOAddress(pieces[i])]]
       ELSE [threw |-> TRUE, out |-> << >>]

(***************************************************************************)
(* The machine record (opaque to the hook, read through accessors) and the *)
(* boost::any parameter of the option handlers.                            *)
(***************************************************************************)
MachineRec(ns, ntp, mqtt, fname, ctype, uuid, host, mtu) ==
    [interface_address |-> <<10, 1, 0, 7>>,
     subnet_mask |-> <<255, 255, 255, 0>>,
     broadcast_address |-> <<10, 1, 0, 255>>,
     router |-> <<10, 1, 0, 1>>,
     next_server |-> <<10, 9, 9, 9>>,
     hostname |-> host, filename |-> fname, client_type |-> ctype,
     nameservers |-> ns, ntpservers |-> ntp, mqtt_server |-> mqtt,
     mtu |-> mtu, uuid |-> uuid]

DefaultMachine ==
    MachineRec(<<"10.0.0.1", ",", "10.0.0.2">>, <<"10.0.0.1">>, NullStr,
               NullStr, << >>, <<"uuid-1">>, <<"host1">>, 1400)

\* boost::any holding a value of one C++ type.
BoostAny(type, machine, str, num) ==
    [type |-> type, machine |-> machine, str |-> str, num |-> num]
AnyMachine(m) == BoostAny("Machine*", m, << >>, 0)
AnyString(s) == BoostAny("std::string", DefaultMachine, s, 0)
AnyCharPtr(s) == BoostAny("char*", DefaultMachine, s, 0)
AnyUint16(n) == BoostAny("uint16_t", DefaultMachine, << >>, n)

\* boost::any_cast<T>(param) throws bad_any_cast unless param holds a T.
any_cast_ok(type, param) == param.type = type

(***************************************************************************)
(* The option multimap of a Pkt4 (Kea library, as callouts.h and           *)
(* callouts.cc call it).                                                   *)
(***************************************************************************)
NoOptions == [c \in Codes |-> << >>]

\* Pkt::getOption: the first option stored under the code, or null.
getOption(opts, code) ==
    IF opts[code] = << >> THEN NullOpt ELSE Head(opts[code])

\* Pkt::delOption: erases one option stored under the code, if any.
delOption(opts, code) ==
    IF opts[code] = << >> THEN opts ELSE [opts EXCEPT ![code] = Tail(@)]

\* Pkt4::addOption on a packet without uniqueness check: plain insert.
addOptionNoCheck(opts, o) ==
    [threw |-> FALSE, opts |-> [opts EXCEPT ![o.code] = Append(@, o)]]

\* Pkt4::addOption: DHCPv4 options are unique in a message, so it throws
\* isc::BadValue when the packet already holds the code, else inserts.
addOption(opts, o) ==
    IF opts[o.code] # << >>
    THEN [threw |-> TRUE, opts |-> opts]
    ELSE [threw |-> FALSE, opts |-> [opts EXCEPT ![o.code] = Append(@, o)]]

\* The number of options the packet holds for a code.
Count(opts, code) == Len(opts[code])

(***************************************************************************)
(* callouts.h: get_and_delete_option and the handler's constructor.        *)
(***************************************************************************)
get_and_delete_option(opts, option) ==
    LET option_val == getOption(opts, option)
    IN [option_val |-> option_val,
        opts |-> IF option_val # NullOpt THEN delOption(opts, option) ELSE opts]

(***************************************************************************)
(* callouts.cc: CDHCPOptionsHandler<Option>.                               *)
(***************************************************************************)
\* OptionString's constructor throws isc::OutOfRange on an empty value.
OptionStringThrows(text) == text = << >>

\* resetOption: sets option_val from the parameter; [threw, option_val].
resetOption(option, option_val, param) ==
    IF option \in {DHO_SUBNET_MASK, DHO_BROADCAST_ADDRESS, DHO_HOST_NAME,
                   DHO_BOOT_FILE_NAME}
    THEN IF ~any_cast_ok("Machine*", param)
         THEN [threw |-> TRUE, option_val |-> option_val]
         ELSE IF option = DHO_SUBNET_MASK
         THEN [threw |-> FALSE,
               option_val |-> OptionUint32(option, param.machine.subnet_mask)]
         ELSE IF option = DHO_BROADCAST_ADDRESS
         THEN [threw |-> FALSE,
               option_val |->
                   OptionUint32(option, param.machine.broadcast_address)]
         ELSE IF option = DHO_HOST_NAME
         THEN IF OptionStringThrows(param.machine.hostname)
              THEN [threw |-> TRUE, option_val |-> option_val]
              ELSE [threw |-> FALSE,
                    option_val |-> OptionString(option, param.machine.hostname)]
         \* DHO_BOOT_FILE_NAME: a null filename leaves option_val as it is.
         ELSE IF param.machine.filename.null
         THEN [threw |-> FALSE, option_val |-> option_val]
         ELSE IF OptionStringThrows(param.machine.filename.s)
         THEN [threw |-> TRUE, option_val |-> option_val]
         ELSE [threw |-> FALSE,
               option_val |-> OptionString(option, param.machine.filename.s)]
    ELSE IF option = DHO_VENDOR_CLASS_IDENTIFIER
    THEN IF ~any_cast_ok("char*", param) \/ OptionStringThrows(param.str)
         THEN [threw |-> TRUE, option_val |-> option_val]
         ELSE [threw |-> FALSE,
               option_val |-> OptionString(DHO_VENDOR_CLASS_IDENTIFIER, param.str)]
    \* default: logged, option_val untouched.
    ELSE [threw |-> FALSE, option_val |-> option_val]

\* A constructor that reads the packet's option and leaves it in the packet.
CDHCPOptionsManagerKeep(opts, option) ==
    [option_val |-> getOption(opts, option), opts |-> opts]

\* The handler as its constructor leaves it: option_val is the option the
\* packet held for the code (removed from the packet), opts the packet.
CDHCPOptionsManager(opts, option) == get_and_delete_option(opts, option)

\* The reset cases of resetAndAddOption, resetOption done: add option_val
\* to the packet if it is set.
addResetOption(r, opts) ==
    IF r.threw
    THEN [threw |-> TRUE, opts |-> opts]
    ELSE IF r.option_val # NullOpt
    THEN addOption(opts, r.option_val)
    ELSE [threw |-> FALSE, opts |-> opts]

\* The address-list cases of resetAndAddOption, getAddresses done.
addAddressList(addrs, opts, option) ==
    IF addrs.threw
    THEN [threw |-> TRUE, opts |-> opts]
    ELSE addOption(opts, Option4AddrLst(option, addrs.out))

\* resetAndAddOption of handler this = [option_val, opts]: builds the
\* option for the code and adds it to the packet; [threw, opts], opts being
\* the packet when the call returned or threw.
resetAndAddOption(this, option, param) ==
    IF option = DHO_ROUTERS
    THEN IF ~any_cast_ok("Machine*", param)
         THEN [threw |-> TRUE, opts |-> this.opts]
         ELSE addOption(this.opts,
                        Option4AddrLst(option, << param.machine.router >>))
    ELSE IF option \in {DHO_NAME_SERVERS, DHO_DOMAIN_NAME_SERVERS,
                        DHO_NTP_SERVERS}
    THEN IF ~any_cast_ok("std::string", param)
         THEN [threw |-> TRUE, opts |-> this.opts]
         ELSE addAddressList(getAddresses(param.str), this.opts, option)
    ELSE IF option = DHO_MQTT_SERVER
    THEN IF ~any_cast_ok("std::string", param) \/ OptionStringThrows(param.str)
         THEN [threw |-> TRUE, opts |-> this.opts]
         ELSE addOption(this.opts, OptionString(option, param.str))
    ELSE IF option \in {DHO_SUBNET_MASK, DHO_BROADCAST_ADDRESS, DHO_HOST_NAME,
                        DHO_BOOT_FILE_NAME, DHO_VENDOR_CLASS_IDENTIFIER}
    THEN addResetOption(resetOption(option, this.option_val, param),
                        this.opts)
    ELSE IF option = DHO_INTERFACE_MTU
    THEN IF ~any_cast_ok("uint16_t", param)
         THEN [threw |-> TRUE,
               opts |-> delOption(this.opts, DHO_INTERFACE_MTU)]
         ELSE addOption(delOption(this.opts, DHO_INTERFACE_MTU),
                        OptionUint16(DHO_INTERFACE_MTU, param.num))
    \* default: logged, nothing added.
    ELSE [threw |-> FALSE, opts |-> this.opts]

(***************************************************************************)
(* callouts.cc: update_option.  h is what the call works on: the options   *)
(* of the response packet, the status of the callout handle, and the list  *)
(* of the update_option calls made so far with each one's outcome.         *)
(***************************************************************************)
NEXT_STEP_CONTINUE == "NEXT_STEP_CONTINUE"
NEXT_STEP_DROP == "NEXT_STEP_DROP"

\* The try block of update_option: construct the handler, run it.
update_option_try(opts, option, param) ==
    resetAndAddOption(CDHCPOptionsManager(opts, option), option, param)

\* update_option once its try block ended with r = [threw, opts]: the
\* catch clause sets the drop status.
update_option_catch(h, option, r) ==
    [ops |-> Append(h.ops, [option |-> option, threw |-> r.threw]),
     status |-> IF r.threw THEN NEXT_STEP_DROP ELSE h.status,
     opts |-> r.opts]

update_option(h, option, param) ==
    update_option_catch(h, option, update_option_try(h.opts, option, param))

(***************************************************************************)
(* callouts.cc: set_options and set_vendor_options.                        *)
(***************************************************************************)
\* The MQTT step of set_options: only if the record has a server.
set_mqtt_server(h, machine) ==
    IF ~machine.mqtt_server.null
    THEN update_option(h, DHO_MQTT_SERVER, AnyString(machine.mqtt_server.s))
    ELSE h

\* A vendor-class step that runs update_option for every client type, the
\* empty one too.
set_client_type_always(h, machine) ==
    update_option(h, DHO_VENDOR_CLASS_IDENTIFIER,
                  AnyCharPtr(machine.client_type))

\* The vendor-class step of set_options: only if the client type is not
\* empty.
set_client_type(h, machine) ==
    IF Len(machine.client_type) > 0
    THEN update_option(h, DHO_VENDOR_CLASS_IDENTIFIER,
                       AnyCharPtr(machine.client_type))
    ELSE h

set_options(h, machine) ==
    LET h1 == update_option(h, DHO_ROUTERS, AnyMachine(machine))
        h2 == update_option(h1, DHO_NAME_SERVERS,
                            AnyString(machine.nameservers))
        h3 == update_option(h2, DHO_DOMAIN_NAME_SERVERS,
                            AnyString(machine.nameservers))
        h4 == update_option(h3, DHO_NTP_SERVERS, AnyString(machine.ntpservers))
        h5 == set_mqtt_server(h4, machine)
        h6 == update_option(h5, DHO_INTERFACE_MTU, AnyUint16(machine.mtu))
        h7 == update_option(h6, DHO_SUBNET_MASK, AnyMachine(machine))
        h8 == update_option(h7, DHO_BROADCAST_ADDRESS, AnyMachine(machine))
        h9 == update_option(h8, DHO_HOST_NAME, AnyMachine(machine))
        h10 == update_option(h9, DHO_BOOT_FILE_NAME, AnyMachine(machine))
    IN set_client_type(h10, machine)

\* Option::delOption on the sub-options of an option.
delSubOption(subs, code) ==
    IF \E i \in 1..Len(subs) : subs[i].code = code
    THEN LET i == CHOOSE i \in 1..Len(subs) :
                      subs[i].code = code
                      /\ \A j \in 1..(i - 1) : subs[j].code # code
         IN SubSeq(subs, 1, i - 1) \o SubSeq(subs, i + 1, Len(subs))
    ELSE subs

\* A vendor-encapsulated option that carries sub-option 70 for every UUID,
\* the empty one too.
vendor_option_always_uuid(machine) ==
    OptionRaw(DHO_VENDOR_ENCAPSULATED_OPTIONS,
              << SubOpt(6, "OptionInt<uint32_t>", << >>, <<0, 0, 0, 8>>),
                 SubOpt(70, "OptionString", machine.uuid, << >>) >>)

\* The vendor-encapsulated option set_vendor_options builds.
vendor_option(machine) ==
    LET \* new Option(Option::V4, DHO_VENDOR_ENCAPSULATED_OPTIONS)
        fresh == << >>
        s6 == Append(delSubOption(fresh, 6),
                     SubOpt(6, "OptionInt<uint32_t>", << >>, <<0, 0, 0, 8>>))
        d70 == delSubOption(s6, 70)
        s70 == IF Len(machine.uuid) > 0
               THEN Append(d70, SubOpt(70, "OptionString", machine.uuid, << >>))
               ELSE d70
    IN OptionRaw(DHO_VENDOR_ENCAPSULATED_OPTIONS, s70)

\* set_vendor_options: [threw, opts]; nothing catches what addOption throws.
set_vendor_options(opts, machine) ==
    addOption(opts, vendor_option(machine))

(***************************************************************************)
(* State.  One callout handle per request r \in Req.                       *)
(***************************************************************************)
Req == 1..NumReq

VARIABLES
    phase,            \* r -> "new" | "received" | "sent" | "destroyed"
    handle,           \* r -> [status, machine]: the CalloutHandle's status
                      \*      and its context entry "machine" (0: none)
    response,         \* r -> the response packet [opts, yiaddr, siaddr]
    entry,            \* r -> the response packet as pkt4_send received it
    recv,             \* r -> what the pkt4_receive invocation did
    send,             \* r -> what the pkt4_send invocation did; loaded:
                      \*      the context held a machine
    heap,             \* m -> the machine record resolve allocated for
                      \*      request m: [state, frees, rec]
    total_requests,   \* carbide_increment_total_requests calls
    dropped_requests, \* reason -> carbide_increment_dropped_requests calls
    harness,          \* the option harness: [n, last], the number of
                      \*      update_option calls made on response[1] and
                      \*      the last one
    library           \* the hook library as shim_load left it: [loaded,
                      \*      handle_null, params, ret, registered, config]

vars == << phase, handle, response, entry, recv, send, heap, total_requests,
           dropped_requests, harness,
                    library >>

(***************************************************************************)
(* The discovery builder interface (carbide_rust.h, external).             *)
(***************************************************************************)
Setters ==
    { "discovery_set_link_select", "discovery_set_circuit_id",
      "discovery_set_remote_id", "discovery_set_vendor_class",
      "discovery_set_desired_address", "discovery_set_client_system",
      "discovery_set_relay", "discovery_set_mac_address" }

\* A DiscoveryBuilderResult: Success, or the error the named call returned.
Success == [code |-> "Success", from |-> ""]
Failure(fn) == [code |-> "Error", from |-> fn]

\* discovery_builder_result_as_str: one text per result value.
discovery_builder_result_as_str(result) ==
    IF result = Success THEN "Success" ELSE result.from

DropReasons ==
    {"NonRelayedPacket", "Success", "discovery_fetch_machine"} \cup Setters

\* A sub-option or option payload that may be absent.
Absent == [present |-> FALSE, data |-> << >>]
Present(data) == [present |-> TRUE, data |-> data]

\* A query packet as pkt4_receive reads it.  opt82, opt60 and opt93 are
\* present when getOption returns an option of the type the code casts to.
Query(giaddr, opt82, link, circuit, remote, opt60, opt50, opt93) ==
    [giaddr |-> giaddr, hwaddr |-> <<170, 187, 204, 221, 238, 255>>,
     opt82 |-> opt82, link |-> link, circuit |-> circuit, remote |-> remote,
     opt60 |-> opt60, opt50 |-> opt50, opt93 |-> opt93]

\* Pkt4::isRelayed: giaddr is neither 0.0.0.0 nor 255.255.255.255.
isRelayed(q) == q.giaddr # ZeroU32 /\ q.giaddr # <<255, 255, 255, 255>>

\* IOAddress::toText of an address.
toText(addr) ==
    IF \E t \in DOMAIN AddrText : AddrText[t] = addr
    THEN CHOOSE t \in DOMAIN AddrText : AddrText[t] = addr
    ELSE "a.b.c.d"

\* One call of a function of the builder interface, as the log keeps it.
Called(fn, arg, text, result) ==
    [fn |-> fn, arg |-> arg, text |-> text, result |-> result]

\* d is the receive phase under way: builder_result and the calls made.
\* A setter in F returns its failure, any other returns Success.
CallSetter(d, fn, arg, text, F) ==
    LET result == IF fn \in F THEN Failure(fn) ELSE Success
    IN [builder_result |-> result,
        log |-> Append(d.log, Called(fn, arg, text, result))]

\* A call whose result the caller drops.
CallSetterUnchecked(d, fn, arg, text, F) ==
    [builder_result |-> d.builder_result,
     log |-> CallSetter(d, fn, arg, text, F).log]

(***************************************************************************)
(* callouts.cc: update_discovery_parameters (all overloads).               *)
(***************************************************************************)
\* An extraction that takes a link-selection sub-option of another length
\* than 4 bytes for an error.
update_discovery_parameters_option82_strict(d, option, q, F) ==
    IF option = RAI_OPTION_LINK_SELECTION /\ q.link.present
    THEN IF Len(q.link.data) = 4
         THEN CallSetter(d, "discovery_set_link_select", q.link.data, "", F)
         ELSE [d EXCEPT !.builder_result = Failure("discovery_set_link_select")]
    ELSE IF option = RAI_OPTION_AGENT_CIRCUIT_ID /\ q.circuit.present
    THEN CallSetter(d, "discovery_set_circuit_id", q.circuit.data, "", F)
    ELSE IF option = RAI_OPTION_REMOTE_ID /\ q.remote.present
    THEN CallSetter(d, "discovery_set_remote_id", q.remote.data, "", F)
    ELSE [d EXCEPT !.builder_result = Success]

update_discovery_parameters_option82(d, option, q, F) ==
    IF option = RAI_OPTION_LINK_SELECTION
    THEN IF q.link.present /\ Len(q.link.data) = 4
         THEN CallSetter(d, "discovery_set_link_select", q.link.data, "", F)
         ELSE [d EXCEPT !.builder_result = Success]
    ELSE IF option = RAI_OPTION_AGENT_CIRCUIT_ID
    THEN IF q.circuit.present
         THEN CallSetter(d, "discovery_set_circuit_id", q.circuit.data, "", F)
         ELSE [d EXCEPT !.builder_result = Success]
    ELSE IF option = RAI_OPTION_REMOTE_ID
    THEN IF q.remote.present
         THEN CallSetter(d, "discovery_set_remote_id", q.remote.data, "", F)
         ELSE [d EXCEPT !.builder_result = Success]
    ELSE [d EXCEPT !.builder_result = Success]

\* The OptionCustom overload: the three sub-options in turn, returning at
\* the first failure.
after_circuit_id(d2, q, F) ==
    IF d2.builder_result # Success THEN d2
    ELSE update_discovery_parameters_option82(d2, RAI_OPTION_REMOTE_ID, q, F)

after_link_selection(d1, q, F) ==
    IF d1.builder_result # Success THEN d1
    ELSE after_circuit_id(
             update_discovery_parameters_option82(
                 d1, RAI_OPTION_AGENT_CIRCUIT_ID, q, F), q, F)

update_discovery_parameters_custom(d, option, q, F) ==
    IF option = DHO_DHCP_AGENT_OPTIONS
    THEN after_link_selection(
             update_discovery_parameters_option82(
                 d, RAI_OPTION_LINK_SELECTION, q, F), q, F)
    ELSE [d EXCEPT !.builder_result = Success]

\* The OptionString overload.
update_discovery_parameters_string(d, option, q, F) ==
    IF option = DHO_VENDOR_CLASS_IDENTIFIER
    THEN CallSetter(d, "discovery_set_vendor_class", q.opt60.data, "", F)
    ELSE [d EXCEPT !.builder_result = Success]

\* The OptionUint16 overload.
update_discovery_parameters_uint16(d, option, q, F) ==
    IF option = DHO_SYSTEM
    THEN CallSetter(d, "discovery_set_client_system", q.opt93.data, "", F)
    ELSE [d EXCEPT !.builder_result = Success]

\* Pkt4::getOption on the query, and the class of the option it returns.
queryOption(q, option) ==
    IF option = DHO_DHCP_AGENT_OPTIONS THEN q.opt82
    ELSE IF option = DHO_VENDOR_CLASS_IDENTIFIER THEN q.opt60
    ELSE IF option = DHO_DHCP_REQUESTED_ADDRESS THEN q.opt50
    ELSE IF option = DHO_SYSTEM THEN q.opt93
    ELSE Absent

optionClass(option) ==
    IF option = DHO_DHCP_AGENT_OPTIONS THEN "OptionCustom"
    ELSE IF option = DHO_VENDOR_CLASS_IDENTIFIER THEN "OptionString"
    ELSE IF option = DHO_SYSTEM THEN "OptionUint16"
    ELSE "Option"

\* A template that takes a missing option for an error.
update_discovery_parameters_required(T, d, option, q, F) ==
    IF queryOption(q, option).present /\ optionClass(option) = T
    THEN IF T = "OptionCustom"
         THEN update_discovery_parameters_custom(d, option, q, F)
         ELSE IF T = "OptionString"
         THEN update_discovery_parameters_string(d, option, q, F)
         ELSE update_discovery_parameters_uint16(d, option, q, F)
    ELSE [d EXCEPT !.builder_result = Failure("update_discovery_parameters")]

\* The template: dynamic_pointer_cast<T> of the query's option; a missing
\* option (or one of another class) is logged at most, and is Success.
update_discovery_parameters(T, d, option, q, F) ==
    IF queryOption(q, option).present /\ optionClass(option) = T
    THEN IF T = "OptionCustom"
         THEN update_discovery_parameters_custom(d, option, q, F)
         ELSE IF T = "OptionString"
         THEN update_discovery_parameters_string(d, option, q, F)
         ELSE update_discovery_parameters_uint16(d, option, q, F)
    ELSE [d EXCEPT !.builder_result = Success]

(***************************************************************************)
(* callouts.cc: pkt4_receive.                                              *)
(***************************************************************************)
\* A null Machine pointer.
NullMachine == [null |-> TRUE, rec |-> DefaultMachine]

\* What discovery_fetch_machine hands back: its result and the machine
\* pointer it wrote (null, or a record).
Fetch(result, null, rec) == [result |-> result, null |-> null, rec |-> rec]

\* A desired-address step that takes a payload of another length than 4
\* bytes for an error.
desired_address_step_strict(d, q, F) ==
    IF d.builder_result = Success /\ q.opt50.present
    THEN IF Len(q.opt50.data) = IPV4_ADDR_SIZEB
         THEN CallSetterUnchecked(d, "discovery_set_desired_address",
                                  q.opt50.data, toText(q.opt50.data), F)
         ELSE [d EXCEPT
                  !.builder_result = Failure("discovery_set_desired_address")]
    ELSE d

\* The desired-address step (option 50) of pkt4_receive.
desired_address_step(d, q, F) ==
    IF d.builder_result = Success /\ q.opt50.present
    THEN IF Len(q.opt50.data) = IPV4_ADDR_SIZEB
         THEN CallSetterUnchecked(d, "discovery_set_desired_address",
                                  q.opt50.data, toText(q.opt50.data), F)
         ELSE d
    ELSE d

\* The steps of pkt4_receive that run only while builder_result is Success.
vendor_class_step(d, q, F) ==
    IF d.builder_result = Success
    THEN update_discovery_parameters("OptionString", d,
                                     DHO_VENDOR_CLASS_IDENTIFIER, q, F)
    ELSE d

client_system_step(d, q, F) ==
    IF d.builder_result = Success
    THEN update_discovery_parameters("OptionUint16", d, DHO_SYSTEM, q, F)
    ELSE d

relay_step(d, q, F) ==
    IF d.builder_result = Success
    THEN CallSetter(d, "discovery_set_relay", q.giaddr, "", F)
    ELSE d

mac_address_step(d, q, F) ==
    IF d.builder_result = Success
    THEN CallSetter(d, "discovery_set_mac_address", q.hwaddr, "", F)
    ELSE d

\* Machine *machine = nullptr; discovery_fetch_machine is called only
\* while builder_result is Success.  [builder_result, log, machine].
fetch_step(d, fetch) ==
    IF d.builder_result = Success
    THEN [builder_result |-> fetch.result,
          log |-> Append(d.log, Called("discovery_fetch_machine", << >>, "",
                                       fetch.result)),
          machine |-> IF fetch.null THEN NullMachine
                      ELSE [null |-> FALSE, rec |-> fetch.rec]]
    ELSE [builder_result |-> d.builder_result, log |-> d.log,
          machine |-> NullMachine]

\* The discovery part of pkt4_receive, from the builder's allocation to the
\* call of discovery_fetch_machine: [builder_result, log, machine].
discover(q, F, fetch) ==
    LET d0 == [builder_result |-> Success,
               log |-> << Called("discovery_builder_allocate", << >>, "",
                                 Success) >>]
        d1 == update_discovery_parameters("OptionCustom", d0,
                                          DHO_DHCP_AGENT_OPTIONS, q, F)
        d2 == vendor_class_step(d1, q, F)
        d3 == desired_address_step(d2, q, F)
        d4 == client_system_step(d3, q, F)
        d5 == relay_step(d4, q, F)
        d6 == mac_address_step(d5, q, F)
    IN fetch_step(d6, fetch)

\* The test that ends the receive phase in a drop.
fetch_failed(builder_result, machine) ==
    builder_result # Success \/ machine.null

\* An end of pkt4_receive that frees the builder only on the path that
\* stores the machine.
receive_result_leak(d) ==
    [status |-> IF fetch_failed(d.builder_result, d.machine)
                THEN NEXT_STEP_DROP ELSE NEXT_STEP_CONTINUE,
     dropped |-> IF fetch_failed(d.builder_result, d.machine)
                 THEN discovery_builder_result_as_str(d.builder_result)
                 ELSE "",
     ret |-> IF fetch_failed(d.builder_result, d.machine) THEN 1 ELSE 0,
     store |-> ~fetch_failed(d.builder_result, d.machine),
     builder_result |-> d.builder_result,
     log |-> IF fetch_failed(d.builder_result, d.machine) THEN d.log
             ELSE Append(d.log, Called("discovery_builder_free", << >>, "",
                                       Success)),
     machine |-> d.machine]

\* The end of pkt4_receive, d being what discover left; the unique_ptr's
\* deleter frees the builder on either return.
\*   status: the handle's status; dropped: the reason counted, "" if none;
\*   store: whether the machine went into the context; ret: return value.
receive_result(d) ==
    [status |-> IF fetch_failed(d.builder_result, d.machine)
                THEN NEXT_STEP_DROP ELSE NEXT_STEP_CONTINUE,
     dropped |-> IF fetch_failed(d.builder_result, d.machine)
                 THEN discovery_builder_result_as_str(d.builder_result)
                 ELSE "",
     ret |-> IF fetch_failed(d.builder_result, d.machine) THEN 1 ELSE 0,
     store |-> ~fetch_failed(d.builder_result, d.machine),
     builder_result |-> d.builder_result,
     log |-> Append(d.log, Called("discovery_builder_free", << >>, "",
                                  Success)),
     machine |-> d.machine]

\* A pkt4_receive that takes every query for a relayed one.
pkt4_receive_unchecked(q, F, fetch) == receive_result(discover(q, F, fetch))

\* pkt4_receive on query q: what it leaves behind.
pkt4_receive(q, F, fetch) ==
    IF ~isRelayed(q)
    THEN [status |-> NEXT_STEP_DROP, dropped |-> "NonRelayedPacket",
          ret |-> 0, store |-> FALSE, builder_result |-> Success,
          log |-> << >>, machine |-> NullMachine]
    ELSE receive_result(discover(q, F, fetch))

(***************************************************************************)
(* callouts.cc: pkt4_send.                                                 *)
(***************************************************************************)
\* An end of pkt4_send that leaves the next-server address unset.
send_result_no_siaddr(m, h, v) ==
    [status |-> h.status,
     ret |-> IF v.threw THEN -1 ELSE 0,
     threw |-> v.threw,
     response |-> [opts |-> v.opts, yiaddr |-> m.interface_address,
                   siaddr |-> ZeroU32],
     ops |-> h.ops]

\* The end of pkt4_send: h is what set_options left, v what
\* set_vendor_options did.  threw: an exception left the callout.
send_result(m, h, v) ==
    [status |-> h.status,
     ret |-> IF v.threw THEN -1 ELSE 0,
     threw |-> v.threw,
     response |-> [opts |-> v.opts, yiaddr |-> m.interface_address,
                   siaddr |-> m.next_server],
     ops |-> h.ops]

\* pkt4_send once the machine m is loaded: set_options, then
\* set_vendor_options on the packet it left.
send_options(m, h) == send_result(m, h, set_vendor_options(h.opts, m))

\* A pkt4_send that goes on without a machine in the context.
pkt4_send_unchecked(machine, resp) ==
    send_options(machine.rec,
                 set_options([opts |-> resp.opts,
                              status |-> NEXT_STEP_CONTINUE, ops |-> << >>],
                             machine.rec))

\* pkt4_send with the context's machine (null when the context has none)
\* on response packet resp.
pkt4_send(machine, resp) ==
    IF machine.null
    THEN [status |-> NEXT_STEP_DROP, ret |-> 1, threw |-> FALSE,
          response |-> resp, ops |-> << >>]
    ELSE send_options(machine.rec,
                      set_options([opts |-> resp.opts,
                                   status |-> NEXT_STEP_CONTINUE,
                                   ops |-> << >>],
                                  machine.rec))

(***************************************************************************)
(* Inputs.                                                                 *)
(***************************************************************************)
\* An option the host put into the response before pkt4_send runs.
OldOpt(code) ==
    IF code = DHO_INTERFACE_MTU THEN OptionUint16(code, 1500)
    ELSE Opt(code, "Option", << >>, <<"old">>, << >>, 0, << >>)

Packet(opts) ==
    [opts |-> opts, yiaddr |-> <<10, 1, 0, 99>>, siaddr |-> ZeroU32]

\* The response packet with the codes of S preset.
PresetResponse(S) ==
    Packet([c \in Codes |-> IF c \in S THEN << OldOpt(c) >> ELSE << >>])

\* Response packets holding at most n options, one per code at most.
Responses(n) ==
    { PresetResponse(S) : S \in { T \in SUBSET Codes : Cardinality(T) <= n } }

NoResponse == [opts |-> NoOptions, yiaddr |-> ZeroU32, siaddr |-> ZeroU32]

\* Machine records.
GoodServers == <<"10.0.0.1", ",", "10.0.0.2">>
BadServers == <<"10.0.0.1", ",", "bogus">>

Machines ==
    { MachineRec(ns, ntp, mqtt, fname, ctype, uuid, <<"host1">>, 1400) :
        ns \in {GoodServers, BadServers},
        ntp \in {<<"10.0.0.1">>, <<"bogus">>},
        mqtt \in {NullStr, CStr(<<"mqtt.local">>)},
        fname \in {NullStr, CStr(<<"ipxe.efi">>)},
        ctype \in {<< >>, <<"PXEClient">>},
        uuid \in {<< >>, <<"uuid-1">>} }

\* Queries.
RelayAddr == <<192, 0, 2, 1>>
SubOptions(datas) == {Absent} \cup { Present(x) : x \in datas }

Queries ==
    { Query(ZeroU32, Absent, Absent, Absent, Absent, Absent, Absent, Absent) }
    \cup
    { Query(RelayAddr, Absent, Absent, Absent, Absent, o60, o50, o93) :
        o60 \in SubOptions({<<80, 88, 69>>}),
        o50 \in SubOptions({<<10, 0, 0>>, <<10, 0, 0, 1>>}),
        o93 \in SubOptions({<<7>>}) }
    \cup
    { Query(RelayAddr, Present(<< >>), link, circuit, remote, o60, o50, o93) :
        link \in SubOptions({<<10, 0, 0>>, <<10, 0, 0, 5>>}),
        circuit \in SubOptions({<<101>>}),
        remote \in SubOptions({<<102>>}),
        o60 \in SubOptions({<<80, 88, 69>>}),
        o50 \in SubOptions({<<10, 0, 0>>, <<10, 0, 0, 1>>}),
        o93 \in SubOptions({<<7>>}) }

BareQuery ==
    Query(RelayAddr, Absent, Absent, Absent, Absent, Absent, Absent, Absent)
NoQuery ==
    Query(ZeroU32, Absent, Absent, Absent, Absent, Absent, Absent, Absent)

\* The sets of setters that fail within one request.
FailureSets == { F \in SUBSET Setters : Cardinality(F) <= MaxFail }

\* Every outcome of discovery_fetch_machine for the records of M.
FetchOutcomes(M) ==
    { Fetch(result, null, rec) :
        result \in {Success, Failure("discovery_fetch_machine")},
        null \in BOOLEAN, rec \in M }

(***************************************************************************)
(* loader.cc: shim_load.                                                   *)
(***************************************************************************)
\* The configuration parameters shim_load reads, in its order, and the
\* function each one is handed to.
ParamNames ==
    << "carbide-provisioning-server-ipv4", "carbide-api-url",
       "carbide-ntpserver", "carbide-nameservers", "carbide-mqtt-server",
       "carbide-metrics-endpoint" >>

ConfigSetters ==
    << "carbide_set_config_next_server_ipv4", "carbide_set_config_api",
       "carbide_set_config_ntp", "carbide_set_config_name_servers",
       "carbide_set_config_mqtt_server",
       "carbide_set_config_metrics_endpoint" >>

\* What LibraryHandle::getParameter returns: a null pointer when the
\* parameter is not configured, else an element with a type and a value.
Element(present, type, value) ==
    [present |-> present, type |-> type, value |-> value]
NoElement == Element(FALSE, "null", "")
StringElement(value) == Element(TRUE, "string", value)
IntegerElement == Element(TRUE, "integer", "")

\* isc::asiolink::IOAddress of a text: whether the constructor accepts it
\* (it throws IOError otherwise) and whether the address isV4().
ServerAddress ==
    ("192.0.2.10" :> [parses |-> TRUE, isV4 |-> TRUE])
    @@ ("2001:db8::1" :> [parses |-> TRUE, isV4 |-> FALSE])
    @@ ("bogus" :> [parses |-> FALSE, isV4 |-> FALSE])

\* c is shim_load under way: failed once it has returned 1, config the
\* carbide_set_config_* calls made so far.
Configured(c, setter, value) ==
    [failed |-> FALSE,
     config |-> Append(c.config, [fn |-> setter, arg |-> value])]
Refused(c) == [failed |-> TRUE, config |-> c.config]

\* The carbide-provisioning-server-ipv4 block.
load_next_server(c, e) ==
    IF ~e.present THEN c
    ELSE IF e.type # "string" THEN Refused(c)
    ELSE IF ~ServerAddress[e.value].parses THEN Refused(c)
    ELSE IF ~ServerAddress[e.value].isV4 THEN Refused(c)
    ELSE Configured(c, "carbide_set_config_next_server_ipv4", e.value)

\* A block that takes a present parameter of any type.
load_string_lenient(c, setter, e) ==
    IF c.failed THEN c
    ELSE IF ~e.present THEN c
    ELSE IF e.type # "string" THEN c
    ELSE Configured(c, setter, e.value)

\* The block of each of the five string parameters; nothing runs once
\* shim_load has returned.
load_string(c, setter, e) ==
    IF c.failed THEN c
    ELSE IF ~e.present THEN c
    ELSE IF e.type # "string" THEN Refused(c)
    ELSE Configured(c, setter, e.value)

\* The end of shim_load: the two registerCallout calls and return 0, unless
\* it returned 1 before.
load_result(c) ==
    [ret |-> IF c.failed THEN 1 ELSE 0,
     registered |-> IF c.failed THEN {} ELSE {"pkt4_receive", "pkt4_send"},
     config |-> c.config]

\* shim_load(handle_ptr), params being what getParameter returns for each
\* name: [ret, registered, config].
shim_load(handle_null, params) ==
    IF handle_null
    THEN [ret |-> 1, registered |-> {}, config |-> << >>]
    ELSE load_result(
           load_string(
             load_string(
               load_string(
                 load_string(
                   load_string(
                     load_next_server([failed |-> FALSE, config |-> << >>],
                                      params[ParamNames[1]]),
                     ConfigSetters[2], params[ParamNames[2]]),
                   ConfigSetters[3], params[ParamNames[3]]),
                 ConfigSetters[4], params[ParamNames[4]]),
               ConfigSetters[5], params[ParamNames[5]]),
             ConfigSetters[6], params[ParamNames[6]]))

\* The configurations of the hook library.
ParamSet == { ParamNames[i] : i \in 1..Len(ParamNames) }
NoParams == [n \in ParamSet |-> NoElement]
Configurations ==
    { [n \in ParamSet |-> IF n = ParamNames[1] THEN a ELSE f[n]] :
        a \in { NoElement, IntegerElement }
                \cup { StringElement(t) : t \in DOMAIN ServerAddress },
        f \in [ParamSet \ { ParamNames[1] } ->
                  { NoElement, IntegerElement, StringElement("value") }] }

\* The library before the host has called shim_load.
NotLoaded ==
    [loaded |-> FALSE, handle_null |-> FALSE, params |-> NoParams,
     ret |-> 0, registered |-> {}, config |-> << >>]

(***************************************************************************)
(* Initial state: no request has reached the hook yet.                     *)
(***************************************************************************)
NoRecv ==
    [ran |-> FALSE, query |-> NoQuery, log |-> << >>,
     builder_result |-> Success, returned |-> FALSE, ret |-> 0]
NoSend ==
    [ran |-> FALSE, loaded |-> FALSE, ret |-> 0, threw |-> FALSE,
     ops |-> << >>]
NoCall ==
    [option |-> 0, param |-> AnyUint16(0), before |-> NoOptions,
     status_before |-> NEXT_STEP_CONTINUE, threw |-> FALSE]

Init ==
    /\ phase = [r \in Req |-> "new"]
    /\ handle = [r \in Req |-> [status |-> NEXT_STEP_CONTINUE, machine |-> 0]]
    /\ response = [r \in Req |-> NoResponse]
    /\ entry = [r \in Req |-> NoResponse]
    /\ recv = [r \in Req |-> NoRecv]
    /\ send = [r \in Req |-> NoSend]
    /\ heap = [m \in Req |->
                  [state |-> "unallocated", frees |-> 0, rec |-> DefaultMachine]]
    /\ total_requests = 0
    /\ dropped_requests = [reason \in DropReasons |-> 0]
    /\ harness = [n |-> 0, last |-> NoCall]
    /\ library = NotLoaded

(***************************************************************************)
(* Actions: the host calls the callouts on the handle of request r.        *)
(***************************************************************************)
\* A pkt4_receive that counts the request only after the relay check.
ReceivedCountedLate(r, q, o) ==
    /\ phase' = [phase EXCEPT ![r] = "received"]
    /\ handle' = [handle EXCEPT
                     ![r] = [status |-> o.status,
                             machine |-> IF o.store THEN r ELSE 0]]
    /\ heap' = IF o.machine.null THEN heap
               ELSE [heap EXCEPT ![r] = [state |-> "live", frees |-> 0,
                                         rec |-> o.machine.rec]]
    /\ recv' = [recv EXCEPT
                   ![r] = [ran |-> TRUE, query |-> q, log |-> o.log,
                           builder_result |-> o.builder_result,
                           returned |-> ~o.machine.null, ret |-> o.ret]]
    /\ total_requests' = IF isRelayed(q) THEN total_requests + 1
                         ELSE total_requests
    /\ dropped_requests' =
           IF o.dropped = "" THEN dropped_requests
           ELSE [dropped_requests EXCEPT ![o.dropped] = @ + 1]
    /\ UNCHANGED << response, entry, send, harness, library >>

\* Request r after pkt4_receive on query q left o behind.
Received(r, q, o) ==
    /\ phase' = [phase EXCEPT ![r] = "received"]
    /\ handle' = [handle EXCEPT
                     ![r] = [status |-> o.status,
                             machine |-> IF o.store THEN r ELSE 0]]
    /\ heap' = IF o.machine.null THEN heap
               ELSE [heap EXCEPT ![r] = [state |-> "live", frees |-> 0,
                                         rec |-> o.machine.rec]]
    /\ recv' = [recv EXCEPT
                   ![r] = [ran |-> TRUE, query |-> q, log |-> o.log,
                           builder_result |-> o.builder_result,
                           returned |-> ~o.machine.null, ret |-> o.ret]]
    /\ total_requests' = total_requests + 1
    /\ dropped_requests' =
           IF o.dropped = "" THEN dropped_requests
           ELSE [dropped_requests EXCEPT ![o.dropped] = @ + 1]
    /\ UNCHANGED << response, entry, send, harness, library >>

\* The host calls pkt4_receive with query q; the builder's setters in F
\* fail and discovery_fetch_machine, if reached, hands back fetch.
Pkt4Receive(r, q, F, fetch) ==
    /\ phase[r] = "new"
    /\ Received(r, q, pkt4_receive(q, F, fetch))

\* A context shared by all handles: every request loads what request 1
\* stored.
contextMachineShared(r) ==
    IF handle[1].machine = 0 THEN NullMachine
    ELSE [null |-> FALSE, rec |-> heap[handle[1].machine].rec]

\* The machine pkt4_send loads from the context of handle r.
contextMachine(r) ==
    IF handle[r].machine = 0 THEN NullMachine
    ELSE [null |-> FALSE, rec |-> heap[handle[r].machine].rec]

\* Request r after pkt4_send on response packet resp left o behind.
Sent(r, resp, o) ==
    /\ phase' = [phase EXCEPT ![r] = "sent"]
    /\ handle' = [handle EXCEPT ![r].status = o.status]
    /\ entry' = [entry EXCEPT ![r] = resp]
    /\ response' = [response EXCEPT ![r] = o.response]
    /\ send' = [send EXCEPT
                   ![r] = [ran |-> TRUE, loaded |-> handle[r].machine # 0,
                           ret |-> o.ret, threw |-> o.threw, ops |-> o.ops]]
    /\ UNCHANGED << recv, heap, total_requests, dropped_requests, harness,
                    library >>

\* The host calls pkt4_send with the response packet resp it has built; the
\* host resets the handle's status before it calls a hook point's callouts.
Pkt4Send(r, resp) ==
    /\ phase[r] \in {"new", "received"}
    /\ Sent(r, resp, pkt4_send(contextMachine(r), resp))

\* The host is done with the request and destroys the handle: the context
\* goes, and with it the last shared_ptr to the machine, whose deleter
\* calls machine_free.
HandleDestroy(r) ==
    /\ phase[r] \in {"received", "sent"}
    /\ phase' = [phase EXCEPT ![r] = "destroyed"]
    /\ handle' = [handle EXCEPT ![r].machine = 0]
    /\ heap' = IF handle[r].machine = 0 THEN heap
               ELSE [heap EXCEPT ![handle[r].machine] =
                                     [@ EXCEPT !.state = "freed",
                                               !.frees = @ + 1]]
    /\ UNCHANGED << response, entry, recv, send, total_requests,
                    dropped_requests, harness,
                    library >>

(***************************************************************************)
(* Spec: the pipeline, NumReq requests in flight, their phases interleaved *)
(* in any order, on a few queries, records and responses.                  *)
(***************************************************************************)
PipelineQueries == { NoQuery, BareQuery }
PipelineFailures == { {}, {"discovery_set_relay"} }
PipelineResponses ==
    { PresetResponse({}), PresetResponse({DHO_VENDOR_ENCAPSULATED_OPTIONS}) }

Receive ==
    \E r \in Req, q \in PipelineQueries, F \in PipelineFailures,
       fetch \in FetchOutcomes({DefaultMachine}) :
        Pkt4Receive(r, q, F, fetch)

Send == \E r \in Req, resp \in PipelineResponses : Pkt4Send(r, resp)

Destroy == \E r \in Req : HandleDestroy(r)

Next == Receive \/ Send \/ Destroy

Spec == Init /\ [][Next]_vars

(***************************************************************************)
(* SpecRecv: one request, every query and every set of failing setters.    *)
(***************************************************************************)
ReceiveAny ==
    \E q \in Queries, F \in FailureSets,
       fetch \in FetchOutcomes({DefaultMachine}) :
        Pkt4Receive(1, q, F, fetch)

DestroyFirst == HandleDestroy(1)

NextRecv == ReceiveAny \/ DestroyFirst

SpecRecv == Init /\ [][NextRecv]_vars

(***************************************************************************)
(* SpecSend: one request, every machine record and every response packet   *)
(* of at most MaxPreset options.                                           *)
(***************************************************************************)
ReceiveBare ==
    \E fetch \in FetchOutcomes(Machines) : Pkt4Receive(1, BareQuery, {}, fetch)

SendAny == \E resp \in Responses(MaxPreset) : Pkt4Send(1, resp)

NextSend == ReceiveBare \/ SendAny \/ DestroyFirst

SpecSend == Init /\ [][NextSend]_vars

(***************************************************************************)
(* SpecOpt: the option harness.  update_option is called, up to MaxCalls   *)
(* times, on the response packet of request 1 with any code of the model   *)
(* and any parameter, the packet holding at most one option at the start.  *)
(***************************************************************************)
MachineWithFile ==
    MachineRec(GoodServers, <<"10.0.0.1">>, NullStr, CStr(<<"ipxe.efi">>),
               << >>, <<"uuid-1">>, <<"host1">>, 1400)

HarnessParams ==
    { AnyMachine(DefaultMachine), AnyMachine(MachineWithFile),
      AnyString(GoodServers), AnyString(BadServers), AnyString(<<"10.0.0.1">>),
      AnyCharPtr(<<"PXEClient">>), AnyUint16(1400), AnyUint16(1500) }

InitOpt ==
    /\ phase = [r \in Req |-> "new"]
    /\ handle = [r \in Req |-> [status |-> NEXT_STEP_CONTINUE, machine |-> 0]]
    /\ \E resp \in Responses(1) :
           /\ response = [r \in Req |-> IF r = 1 THEN resp ELSE NoResponse]
           /\ entry = response
    /\ recv = [r \in Req |-> NoRecv]
    /\ send = [r \in Req |-> NoSend]
    /\ heap = [m \in Req |->
                  [state |-> "unallocated", frees |-> 0, rec |-> DefaultMachine]]
    /\ total_requests = 0
    /\ dropped_requests = [reason \in DropReasons |-> 0]
    /\ harness = [n |-> 0, last |-> NoCall]
    /\ library = NotLoaded

\* The packet and the handle of request 1 after update_option left h.
Updated(option, param, h) ==
    /\ response' = [response EXCEPT ![1].opts = h.opts]
    /\ handle' = [handle EXCEPT ![1].status = h.status]
    /\ harness' = [n |-> harness.n + 1,
                   last |-> [option |-> option, param |-> param,
                             before |-> response[1].opts,
                             status_before |-> handle[1].status,
                             threw |-> h.ops[1].threw]]
    /\ UNCHANGED << phase, entry, recv, send, heap, total_requests,
                    dropped_requests, library >>

UpdateOption(option, param) ==
    /\ harness.n < MaxCalls
    /\ Updated(option, param,
               update_option([opts |-> response[1].opts,
                              status |-> handle[1].status, ops |-> << >>],
                             option, param))

NextOpt == \E option \in Codes, param \in HarnessParams :
               UpdateOption(option, param)

SpecOpt == InitOpt /\ [][NextOpt]_vars

(***************************************************************************)
(* SpecScope: NumReq requests in flight on relayed queries, their phases    *)
(* interleaved in any order, resolve handing each request a record of its  *)
(* own (told apart by its MTU).                                            *)
(***************************************************************************)
RecordOf(r) ==
    MachineRec(GoodServers, <<"10.0.0.1">>, NullStr, NullStr, << >>,
               <<"uuid-1">>, <<"host1">>, 1400 + r)

ReceiveOwn ==
    \E r \in Req :
        \E fetch \in FetchOutcomes({RecordOf(r)}) :
            Pkt4Receive(r, BareQuery, {}, fetch)

SendOwn == \E r \in Req : Pkt4Send(r, PresetResponse({}))

NextScope == ReceiveOwn \/ SendOwn \/ Destroy

SpecScope == Init /\ [][NextScope]_vars

(***************************************************************************)
(* SpecAddr: getAddresses.  One address-list option is synthesized from    *)
(* any string of at most MaxAddrs pieces: addresses, text that is no       *)
(* address, and delimiters in any arrangement.                             *)
(***************************************************************************)
Lexemes == { "10.0.0.1", "10.0.0.2", ",", "bogus" }

AddressTexts ==
    UNION { [1..n -> Lexemes] : n \in 0..(2 * MaxAddrs - 1) }

AddressListCodes == { DHO_NAME_SERVERS, DHO_DOMAIN_NAME_SERVERS, DHO_NTP_SERVERS }

AddressList(option, ips) ==
    /\ harness.n = 0
    /\ Updated(option, AnyString(ips),
               update_option([opts |-> response[1].opts,
                              status |-> handle[1].status, ops |-> << >>],
                             option, AnyString(ips)))

NextAddr == \E option \in AddressListCodes, ips \in AddressTexts :
                AddressList(option, ips)

SpecAddr == Init /\ [][NextAddr]_vars

\* The wire form of an Option4AddrLst: its addresses, 4 bytes each, one
\* after the other; and the option read back from such a payload.
RECURSIVE Option4AddrLst_pack(_)
Option4AddrLst_pack(addrs) ==
    IF addrs = << >> THEN << >>
    ELSE Head(addrs) \o Option4AddrLst_pack(Tail(addrs))

RECURSIVE Option4AddrLst_unpack(_)
Option4AddrLst_unpack(buf) ==
    IF Len(buf) < IPV4_ADDR_SIZEB THEN << >>
    ELSE << SubSeq(buf, 1, IPV4_ADDR_SIZEB) >>
             \o Option4AddrLst_unpack(SubSeq(buf, IPV4_ADDR_SIZEB + 1, Len(buf)))

(***************************************************************************)
(* SpecLoad: the host loads the library, with a null or a real handle and  *)
(* any configuration.                                                      *)
(***************************************************************************)
\* The library after shim_load left o behind.
Loaded(handle_null, params, o) ==
    /\ library' = [loaded |-> TRUE, handle_null |-> handle_null,
                   params |-> params, ret |-> o.ret,
                   registered |-> o.registered, config |-> o.config]
    /\ UNCHANGED << phase, handle, response, entry, recv, send, heap,
                    total_requests, dropped_requests, harness >>

ShimLoad(handle_null, params) ==
    /\ ~library.loaded
    /\ Loaded(handle_null, params, shim_load(handle_null, params))

NextLoad == \E handle_null \in BOOLEAN, params \in Configurations :
                ShimLoad(handle_null, params)

SpecLoad == Init /\ [][NextLoad]_vars

(***************************************************************************)
(* Claims.                                                                 *)
(***************************************************************************)
\* The machine record request r's pkt4_send worked with.
machineOf(r) == heap[r].rec

\* C1: a response packet that enters pkt4_send with at most one option per
\* code holds, once pkt4_send has ended, at most one option for each
\* recognized code, whatever the packet carried on entry.
C1_AtMostOnePerCode ==
    \A r \in Req :
        (send[r].ran /\ \A c \in Codes : Count(entry[r].opts, c) <= 1)
            => \A c \in RecognizedCodes : Count(response[r].opts, c) <= 1

\* C1's case: pkt4_send ran with a machine on a packet that already carried
\* a recognized option, and replaced it.
C1_Witness ==
    /\ send[1].ran /\ send[1].loaded
    /\ \E c \in RecognizedCodes :
           /\ Count(entry[1].opts, c) = 1
           /\ Count(response[1].opts, c) = 1
           /\ response[1].opts[c] # entry[1].opts[c]

\* C2: a query whose giaddr is zero is dropped by pkt4_receive as a
\* NonRelayedPacket: drop status set, the dropped-requests counter
\* incremented with that reason and no other, and no builder allocated, no
\* setter called, resolve not invoked, nothing stored.
C2_NonRelayedDropped ==
    \A r \in Req :
        (recv[r].ran /\ recv[r].query.giaddr = ZeroU32)
            => /\ handle[r].status = NEXT_STEP_DROP
               /\ recv[r].log = << >>
               /\ recv[r].ret = 0
               /\ ~recv[r].returned
               /\ handle[r].machine = 0
               /\ dropped_requests["NonRelayedPacket"] =
                      Cardinality({ x \in Req : /\ recv[x].ran
                                                /\ ~isRelayed(recv[x].query) })

\* C2's case: pkt4_receive ran on a query with giaddr 0.0.0.0.
C2_Witness ==
    /\ recv[1].ran
    /\ recv[1].query.giaddr = ZeroU32
    /\ phase[1] = "received"
    /\ total_requests = 1

isSetterCall(c) == c.fn \in Setters
isDiscoveryCall(c) == c.fn \in Setters \cup {"discovery_fetch_machine"}

\* C3: if a discovery setter returns a failure, no later setter and no
\* resolve call is made for that request, and the receive phase ends
\* Dropped with that failure as its error.
C3_FirstFailureEndsDiscovery ==
    \A r \in Req :
        \A i \in 1..Len(recv[r].log) :
            (isSetterCall(recv[r].log[i]) /\ recv[r].log[i].result # Success)
                => /\ \A j \in (i + 1)..Len(recv[r].log) :
                          ~isDiscoveryCall(recv[r].log[j])
                   /\ handle[r].status = NEXT_STEP_DROP
                   /\ recv[r].builder_result = recv[r].log[i].result

\* C3's case: a setter failed in a receive phase.
C3_Witness ==
    /\ recv[1].ran
    /\ \E i \in 1..Len(recv[1].log) :
           isSetterCall(recv[1].log[i]) /\ recv[1].log[i].result # Success

\* C4: pkt4_receive stores a machine record in the context if and only if
\* every discovery step succeeded and resolve returned success with a
\* non-null record; in every other case it sets the drop status and stores
\* nothing.
C4_StoredIffResolved ==
    \A r \in Req :
        phase[r] = "received"
            => /\ handle[r].machine # 0
                   <=> /\ \A i \in 1..Len(recv[r].log) :
                              recv[r].log[i].result = Success
                       /\ \E i \in 1..Len(recv[r].log) :
                              recv[r].log[i].fn = "discovery_fetch_machine"
                       /\ recv[r].returned
               /\ handle[r].machine = 0 => handle[r].status = NEXT_STEP_DROP

\* C5: every machine record resolve hands back is released (machine_free)
\* exactly once over the life of the request, on every path, also when
\* resolve reports a failure while returning a record.
C5_ReleasedExactlyOnce ==
    \A r \in Req :
        /\ heap[r].frees <= 1
        /\ (phase[r] = "destroyed" /\ recv[r].returned) => heap[r].frees = 1

\* C7: an overwrite of one option is all-or-nothing: if it fails the packet
\* still holds what it held for that code before the call, otherwise it
\* holds the new value.
C7_OverwriteAllOrNothing ==
    (harness.n > 0 /\ harness.last.threw)
        => response[1].opts[harness.last.option]
               = harness.last.before[harness.last.option]

\* C8: update_option with a code it does not support changes nothing in
\* the response packet, also when the packet carries an option with that
\* code, and does not set the drop status.
C8_UnsupportedCodeNoChange ==
    (harness.n > 0 /\ harness.last.option \in UnsupportedCodes)
        => /\ response[1].opts = harness.last.before
           /\ handle[1].status = harness.last.status_before

\* C9: after a send phase with a machine record the response holds exactly
\* one vendor-encapsulated option (43), the freshly built one, also when
\* the response carried an option 43 on entry.
C9_FreshVendorOption ==
    \A r \in Req :
        (send[r].ran /\ send[r].loaded)
            => response[r].opts[DHO_VENDOR_ENCAPSULATED_OPTIONS]
                   = << vendor_option(machineOf(r)) >>

\* C10: when the machine record reports no boot filename, the response has
\* no boot-filename option after the send phase, whatever it held on entry.
C10_NoFilenameNoOption ==
    \A r \in Req :
        (send[r].ran /\ send[r].loaded /\ machineOf(r).filename.null)
            => Count(response[r].opts, DHO_BOOT_FILE_NAME) = 0

\* The calls of carbide_increment_dropped_requests made so far, over the
\* reasons of S.
RECURSIVE droppedCalls(_)
droppedCalls(S) ==
    IF S = {} THEN 0
    ELSE LET reason == CHOOSE x \in S : TRUE
         IN dropped_requests[reason] + droppedCalls(S \ {reason})

\* Why request r's receive phase dropped the request, "" if it did not: the
\* text the drop is counted under.
receiveDropReason(r) ==
    IF ~recv[r].ran THEN ""
    ELSE IF ~isRelayed(recv[r].query) THEN "NonRelayedPacket"
    ELSE IF recv[r].builder_result # Success
    THEN discovery_builder_result_as_str(recv[r].builder_result)
    ELSE IF ~recv[r].returned THEN "Success"
    ELSE ""

\* Request r was dropped by this core, in its receive phase or in a send
\* phase that found no machine in the context.
coreDropped(r) ==
    receiveDropReason(r) # "" \/ (send[r].ran /\ ~send[r].loaded)

\* C11: every request this core drops (non-relayed packet, setter failure,
\* resolve failure or null record, missing context in the send phase)
\* increments the dropped-requests counter exactly once, under the reason
\* of its failure.
C11_EveryDropCountedOnce ==
    /\ droppedCalls(DropReasons) = Cardinality({ r \in Req : coreDropped(r) })
    /\ \A reason \in DropReasons :
           dropped_requests[reason] >=
               Cardinality({ r \in Req : receiveDropReason(r) = reason })

\* C12: a phase that ends with the drop status set has left no partial
\* output: a dropped receive phase has stored no machine in the context,
\* and a send phase that set the drop status because an update_option call
\* failed has changed neither an option nor a header field of the response
\* after that failure.
C12_NoOutputAfterDrop ==
    \A r \in Req :
        /\ (phase[r] = "received" /\ handle[r].status = NEXT_STEP_DROP)
               => handle[r].machine = 0
        /\ \A i \in 1..Len(send[r].ops) :
               (/\ send[r].ops[i].threw
                /\ \A k \in 1..(i - 1) : ~send[r].ops[k].threw)
                   => /\ \A j \in (i + 1)..Len(send[r].ops) :
                             response[r].opts[send[r].ops[j].option]
                                 = entry[r].opts[send[r].ops[j].option]
                      /\ response[r].siaddr = entry[r].siaddr
                      /\ response[r].opts[DHO_VENDOR_ENCAPSULATED_OPTIONS]
                             = entry[r].opts[DHO_VENDOR_ENCAPSULATED_OPTIONS]

\* The options update_option writes for the code into a packet that holds
\* none: the option holding the parameter's value, or none when the
\* parameter supplies no value the option can hold.
valueOf(option, param) ==
    update_option([opts |-> NoOptions, status |-> NEXT_STEP_CONTINUE,
                   ops |-> << >>], option, param).opts[option]

\* C13: update_option for a handled code, run on a packet that holds an
\* option of that code with another value (preset, or written by an earlier
\* run), leaves exactly one option for the code, holding the second value;
\* an MTU option of 1500 synthesized with 1400 ends as one MTU option 1400.
C13_SecondValueReplacesFirst ==
    /\ (/\ harness.n > 0
        /\ harness.last.option \in HandledCodes
        /\ Count(harness.last.before, harness.last.option) = 1
        /\ Len(valueOf(harness.last.option, harness.last.param)) = 1
        /\ valueOf(harness.last.option, harness.last.param)
               # harness.last.before[harness.last.option])
           => response[1].opts[harness.last.option]
                  = valueOf(harness.last.option, harness.last.param)
    /\ (/\ harness.n > 0
        /\ harness.last.option = DHO_INTERFACE_MTU
        /\ harness.last.param = AnyUint16(1400)
        /\ harness.last.before[DHO_INTERFACE_MTU]
               = << OptionUint16(DHO_INTERFACE_MTU, 1500) >>)
           => response[1].opts[DHO_INTERFACE_MTU]
                  = << OptionUint16(DHO_INTERFACE_MTU, 1400) >>

\* C13's case: two runs for one code on a packet that held none at first,
\* the second with another value than the first.
C13_Witness ==
    /\ harness.n = 2
    /\ harness.last.option \in HandledCodes \ {DHO_INTERFACE_MTU}
    /\ entry[1].opts[harness.last.option] = << >>
    /\ Count(harness.last.before, harness.last.option) = 1
    /\ Count(response[1].opts, harness.last.option) = 1
    /\ response[1].opts[harness.last.option]
           # harness.last.before[harness.last.option]

\* C14: with several requests in flight and their phases interleaved in any
\* order, pkt4_send of a request reads only the machine record its own
\* pkt4_receive stored, and a record stored for one request is never read,
\* overwritten or released by another request.
C14_RecordsAreRequestScoped ==
    \A r \in Req :
        /\ handle[r].machine \in {0, r}
        /\ (send[r].ran /\ send[r].loaded)
               => /\ recv[r].ran /\ recv[r].returned
                  /\ response[r].opts[DHO_INTERFACE_MTU]
                         = << OptionUint16(DHO_INTERFACE_MTU, RecordOf(r).mtu) >>
        /\ (send[r].ran /\ ~send[r].loaded) => response[r] = entry[r]
        /\ heap[r].state # "unallocated"
               => /\ recv[r].ran /\ recv[r].returned
                  /\ heap[r].rec = RecordOf(r)
        /\ heap[r].frees > 0 => (phase[r] = "destroyed" /\ heap[r].frees = 1)

\* C14's case: two requests each hold a record of their own, and one of
\* them has run its send phase while the other's record is still stored.
C14_Witness ==
    \E r \in Req, x \in Req :
        /\ r # x
        /\ send[r].ran /\ send[r].loaded
        /\ handle[x].machine = x
        /\ phase[x] = "received"
        /\ heap[r].rec # heap[x].rec

\* The positions in the call log of request r's receive phase at which the
\* function fn was called.
callsOf(r, fn) == { i \in 1..Len(recv[r].log) : recv[r].log[i].fn = fn }

\* Every setter called in request r's receive phase returned Success.
settersSucceeded(r) ==
    \A i \in 1..Len(recv[r].log) :
        isSetterCall(recv[r].log[i]) => recv[r].log[i].result = Success

\* C15: in option-82 extraction a link-selection sub-option of exactly 4
\* bytes makes discovery_set_link_select be called with that address; one
\* of any other length makes no such call and is no failure: circuit id
\* and remote id are still extracted and the rest of the request proceeds.
C15_LinkSelectionLength ==
    \A r \in Req :
        (/\ recv[r].ran /\ isRelayed(recv[r].query)
         /\ recv[r].query.opt82.present /\ recv[r].query.link.present)
            => IF Len(recv[r].query.link.data) = 4
               THEN /\ callsOf(r, "discovery_set_link_select") = {2}
                    /\ recv[r].log[2].arg = recv[r].query.link.data
               ELSE /\ callsOf(r, "discovery_set_link_select") = {}
                    /\ recv[r].query.circuit.present
                           => /\ recv[r].log[2].fn = "discovery_set_circuit_id"
                              /\ recv[r].log[2].arg = recv[r].query.circuit.data
                    /\ (/\ recv[r].query.remote.present
                        /\ \A i \in callsOf(r, "discovery_set_circuit_id") :
                               recv[r].log[i].result = Success)
                           => \E i \in callsOf(r, "discovery_set_remote_id") :
                                  /\ i <= 3
                                  /\ recv[r].log[i].arg
                                         = recv[r].query.remote.data
                    /\ settersSucceeded(r)
                           => /\ callsOf(r, "discovery_set_relay") # {}
                              /\ callsOf(r, "discovery_set_mac_address") # {}
                              /\ callsOf(r, "discovery_fetch_machine") # {}

\* C15's case: option 82 with a 3-byte link selection and a circuit id and
\* a remote id, all extracted, and the request went on to resolve.
C15_Witness ==
    /\ recv[1].ran
    /\ recv[1].query.opt82.present
    /\ recv[1].query.link.present /\ Len(recv[1].query.link.data) = 3
    /\ callsOf(1, "discovery_set_circuit_id") = {2}
    /\ callsOf(1, "discovery_set_remote_id") = {3}
    /\ callsOf(1, "discovery_fetch_machine") # {}
    /\ handle[1].machine = 1

\* The setters pkt4_receive calls before the desired-address step all
\* returned Success in request r.
earlySettersSucceeded(r) ==
    \A i \in 1..Len(recv[r].log) :
        recv[r].log[i].fn \in { "discovery_set_link_select",
                                "discovery_set_circuit_id",
                                "discovery_set_remote_id",
                                "discovery_set_vendor_class" }
            => recv[r].log[i].result = Success

\* C16: a desired-address option (50) whose payload is not exactly 4 bytes
\* makes no discovery_set_desired_address call, and the receive phase goes
\* on to the client-system, relay and MAC setters and to resolve; the
\* request is not dropped for it.
C16_BadDesiredAddressSkipped ==
    \A r \in Req :
        (/\ recv[r].ran /\ isRelayed(recv[r].query)
         /\ recv[r].query.opt50.present
         /\ Len(recv[r].query.opt50.data) # IPV4_ADDR_SIZEB)
            => /\ callsOf(r, "discovery_set_desired_address") = {}
               /\ (earlySettersSucceeded(r) /\ recv[r].query.opt93.present)
                      => callsOf(r, "discovery_set_client_system") # {}
               /\ settersSucceeded(r)
                      => /\ callsOf(r, "discovery_set_relay") # {}
                         /\ callsOf(r, "discovery_set_mac_address") # {}
                         /\ callsOf(r, "discovery_fetch_machine") # {}
                         /\ recv[r].builder_result
                                = recv[r].log[Len(recv[r].log) - 1].result
                         /\ (/\ recv[r].builder_result = Success
                             /\ recv[r].returned
                             /\ phase[r] = "received")
                                => /\ handle[r].status = NEXT_STEP_CONTINUE
                                   /\ handle[r].machine = r

\* C16's case: a 3-byte option 50 with option 93 present, and the request
\* resolved and stored its record.
C16_Witness ==
    /\ recv[1].ran /\ phase[1] = "received"
    /\ recv[1].query.opt50.present /\ Len(recv[1].query.opt50.data) = 3
    /\ recv[1].query.opt93.present
    /\ callsOf(1, "discovery_set_client_system") # {}
    /\ callsOf(1, "discovery_fetch_machine") # {}
    /\ handle[1].machine = 1
    /\ handle[1].status = NEXT_STEP_CONTINUE

\* C17: for a relayed query without option 82 none of the three option-82
\* setters is called and the absence is no failure; a missing vendor-class
\* (60) or client-system (93) option skips its setter without failing; the
\* relay and the MAC setter are then both called, in that order, before
\* resolve.
C17_AbsentOptionsSkipped ==
    \A r \in Req :
        (recv[r].ran /\ isRelayed(recv[r].query))
            => /\ ~recv[r].query.opt82.present
                      => /\ callsOf(r, "discovery_set_link_select") = {}
                         /\ callsOf(r, "discovery_set_circuit_id") = {}
                         /\ callsOf(r, "discovery_set_remote_id") = {}
               /\ ~recv[r].query.opt60.present
                      => callsOf(r, "discovery_set_vendor_class") = {}
               /\ ~recv[r].query.opt93.present
                      => callsOf(r, "discovery_set_client_system") = {}
               /\ settersSucceeded(r)
                      => \E i \in callsOf(r, "discovery_set_relay") :
                             /\ recv[r].log[i + 1].fn
                                    = "discovery_set_mac_address"
                             /\ recv[r].log[i + 2].fn
                                    = "discovery_fetch_machine"
               /\ (/\ ~recv[r].query.opt82.present
                   /\ ~recv[r].query.opt60.present
                   /\ ~recv[r].query.opt50.present
                   /\ ~recv[r].query.opt93.present)
                      => /\ recv[r].log[2].fn = "discovery_set_relay"
                         /\ recv[r].log[2].result = Success
                                => recv[r].log[3].fn
                                       = "discovery_set_mac_address"

\* C17's case: a relayed query with none of the options 82, 60, 93, whose
\* receive phase called relay, MAC and resolve and stored the record.
C17_Witness ==
    /\ recv[1].ran /\ phase[1] = "received"
    /\ isRelayed(recv[1].query)
    /\ ~recv[1].query.opt82.present
    /\ ~recv[1].query.opt60.present
    /\ ~recv[1].query.opt93.present
    /\ callsOf(1, "discovery_set_relay") = {2}
    /\ callsOf(1, "discovery_set_mac_address") = {3}
    /\ callsOf(1, "discovery_fetch_machine") = {4}
    /\ handle[1].machine = 1

\* The sub-options with the given code among subs.
subOptions(subs, code) == { i \in 1..Len(subs) : subs[i].code = code }

\* C18: the vendor-encapsulated option the send phase builds and adds holds
\* exactly one sub-option 6 with the 32-bit value 8, exactly one sub-option
\* 70 holding the machine's UUID when the UUID is not empty and none when
\* it is empty, and no other sub-option.
C18_VendorSubOptions ==
    \A r \in Req :
        (send[r].ran /\ send[r].loaded /\ ~send[r].threw)
            => /\ Count(response[r].opts, DHO_VENDOR_ENCAPSULATED_OPTIONS) = 1
               /\ \A i \in 1..Len(response[r].opts[43][1].subs) :
                      response[r].opts[43][1].subs[i].code \in {6, 70}
               /\ Cardinality(subOptions(response[r].opts[43][1].subs, 6)) = 1
               /\ \A i \in subOptions(response[r].opts[43][1].subs, 6) :
                      /\ response[r].opts[43][1].subs[i].shape
                             = "OptionInt<uint32_t>"
                      /\ response[r].opts[43][1].subs[i].u32 = <<0, 0, 0, 8>>
               /\ Cardinality(subOptions(response[r].opts[43][1].subs, 70))
                      = IF machineOf(r).uuid = << >> THEN 0 ELSE 1
               /\ \A i \in subOptions(response[r].opts[43][1].subs, 70) :
                      /\ response[r].opts[43][1].subs[i].shape = "OptionString"
                      /\ response[r].opts[43][1].subs[i].text
                             = machineOf(r).uuid

\* C18's case: a send phase for a machine with an empty UUID added the
\* vendor-encapsulated option.
C18_Witness ==
    /\ send[1].ran /\ send[1].loaded /\ ~send[1].threw
    /\ machineOf(1).uuid = << >>
    /\ Count(response[1].opts, DHO_VENDOR_ENCAPSULATED_OPTIONS) = 1

\* The update_option calls request r's send phase made for the code.
opsOn(r, code) ==
    { i \in 1..Len(send[r].ops) : send[r].ops[i].option = code }

\* C19: when the machine's client-type string is empty the send phase does
\* nothing to the response's vendor-class option (60), and when the machine
\* supplies no MQTT server it does nothing to the MQTT option (224): what
\* the response held for those codes on entry is still there, unchanged.
C19_SkippedOptionsUntouched ==
    \A r \in Req :
        (send[r].ran /\ send[r].loaded)
            => /\ machineOf(r).client_type = << >>
                      => /\ opsOn(r, DHO_VENDOR_CLASS_IDENTIFIER) = {}
                         /\ response[r].opts[DHO_VENDOR_CLASS_IDENTIFIER]
                                = entry[r].opts[DHO_VENDOR_CLASS_IDENTIFIER]
               /\ machineOf(r).mqtt_server.null
                      => /\ opsOn(r, DHO_MQTT_SERVER) = {}
                         /\ response[r].opts[DHO_MQTT_SERVER]
                                = entry[r].opts[DHO_MQTT_SERVER]

\* C19's case: a send phase for a machine with an empty client type and no
\* MQTT server, on a response that carried options 60 and 224 on entry.
C19_Witness ==
    /\ send[1].ran /\ send[1].loaded
    /\ machineOf(1).client_type = << >>
    /\ machineOf(1).mqtt_server.null
    /\ Count(entry[1].opts, DHO_VENDOR_CLASS_IDENTIFIER) = 1
    /\ Count(entry[1].opts, DHO_MQTT_SERVER) = 1
    /\ Len(send[1].ops) > 0

\* C20: within one request discovery_fetch_machine is called at most once
\* (no retry after a failure), and the discovery builder allocated for the
\* request is freed exactly once on every exit path of pkt4_receive,
\* whether the request is stored or dropped.
C20_OneResolveOneFree ==
    \A r \in Req :
        recv[r].ran
            => /\ Cardinality(callsOf(r, "discovery_fetch_machine")) <= 1
               /\ Cardinality(callsOf(r, "discovery_builder_allocate"))
                      = IF isRelayed(recv[r].query) THEN 1 ELSE 0
               /\ Cardinality(callsOf(r, "discovery_builder_free"))
                      = Cardinality(callsOf(r, "discovery_builder_allocate"))
               /\ isRelayed(recv[r].query)
                      => /\ recv[r].log[1].fn = "discovery_builder_allocate"
                         /\ recv[r].log[Len(recv[r].log)].fn
                                = "discovery_builder_free"

\* C20's case: a receive phase in which resolve failed and the request was
\* dropped.
C20_Witness ==
    /\ recv[1].ran /\ phase[1] = "received"
    /\ handle[1].status = NEXT_STEP_DROP
    /\ \E i \in callsOf(1, "discovery_fetch_machine") :
           recv[1].log[i].result # Success
    /\ callsOf(1, "discovery_builder_free") # {}

\* No update_option call of request r's send phase failed, and no exception
\* left pkt4_send.
noOptionFailure(r) ==
    /\ ~send[r].threw
    /\ \A i \in 1..Len(send[r].ops) : ~send[r].ops[i].threw

\* C21: a send phase that finds a machine record and meets no option
\* failure sets yiaddr to the record's interface address and siaddr to its
\* next-server address, writes the router, DNS, NTP, MTU, subnet-mask,
\* broadcast and hostname options and the vendor-encapsulated option,
\* returns 0 and does not set the drop status.
C21_SendWritesResponse ==
    \A r \in Req :
        (send[r].ran /\ send[r].loaded /\ noOptionFailure(r))
            => /\ response[r].yiaddr = machineOf(r).interface_address
               /\ response[r].siaddr = machineOf(r).next_server
               /\ response[r].opts[DHO_ROUTERS]
                      = << Option4AddrLst(DHO_ROUTERS,
                                          << machineOf(r).router >>) >>
               /\ response[r].opts[DHO_NAME_SERVERS]
                      = << Option4AddrLst(DHO_NAME_SERVERS,
                               getAddresses(machineOf(r).nameservers).out) >>
               /\ response[r].opts[DHO_DOMAIN_NAME_SERVERS]
                      = << Option4AddrLst(DHO_DOMAIN_NAME_SERVERS,
                               getAddresses(machineOf(r).nameservers).out) >>
               /\ response[r].opts[DHO_NTP_SERVERS]
                      = << Option4AddrLst(DHO_NTP_SERVERS,
                               getAddresses(machineOf(r).ntpservers).out) >>
               /\ response[r].opts[DHO_INTERFACE_MTU]
                      = << OptionUint16(DHO_INTERFACE_MTU, machineOf(r).mtu) >>
               /\ response[r].opts[DHO_SUBNET_MASK]
                      = << OptionUint32(DHO_SUBNET_MASK,
                                        machineOf(r).subnet_mask) >>
               /\ response[r].opts[DHO_BROADCAST_ADDRESS]
                      = << OptionUint32(DHO_BROADCAST_ADDRESS,
                                        machineOf(r).broadcast_address) >>
               /\ response[r].opts[DHO_HOST_NAME]
                      = << OptionString(DHO_HOST_NAME, machineOf(r).hostname) >>
               /\ response[r].opts[DHO_VENDOR_ENCAPSULATED_OPTIONS]
                      = << vendor_option(machineOf(r)) >>
               /\ send[r].ret = 0
               /\ handle[r].status = NEXT_STEP_CONTINUE

\* C21's case: a send phase with a machine and no failure, on a response
\* that carried a router option on entry.
C21_Witness ==
    /\ send[1].ran /\ send[1].loaded /\ noOptionFailure(1)
    /\ Count(entry[1].opts, DHO_ROUTERS) = 1
    /\ response[1].opts[DHO_ROUTERS] # entry[1].opts[DHO_ROUTERS]
    /\ response[1].siaddr # entry[1].siaddr

\* The lists of 1 to MaxAddrs valid IPv4 addresses, and the comma-joined
\* text of a list.
AddressLists ==
    UNION { [1..n -> { AddrText[t] : t \in DOMAIN AddrText }] :
              n \in 1..MaxAddrs }

RECURSIVE Joined(_)
Joined(L) ==
    IF Len(L) = 1 THEN << toText(L[1]) >>
    ELSE << toText(L[1]), "," >> \o Joined(Tail(L))

\* C22: getAddresses applied to the comma-joined text of n valid IPv4
\* addresses returns exactly those n addresses in the same order, and the
\* address-list option built from it decodes back to that ordered list.
C22_AddressListRoundTrip ==
    \A L \in AddressLists :
        (/\ harness.n = 1
         /\ harness.last.option \in AddressListCodes
         /\ harness.last.param = AnyString(Joined(L)))
            => /\ ~harness.last.threw
               /\ Count(response[1].opts, harness.last.option) = 1
               /\ response[1].opts[harness.last.option][1].addrs = L
               /\ Len(Option4AddrLst_pack(
                          response[1].opts[harness.last.option][1].addrs))
                      = IPV4_ADDR_SIZEB * Len(L)
               /\ Option4AddrLst_unpack(Option4AddrLst_pack(
                      response[1].opts[harness.last.option][1].addrs)) = L

\* C22's case: an option built from a list of MaxAddrs addresses that are
\* not all the same.
C22_Witness ==
    /\ harness.n = 1
    /\ harness.last.option \in AddressListCodes
    /\ ~harness.last.threw
    /\ Count(response[1].opts, harness.last.option) = 1
    /\ Len(response[1].opts[harness.last.option][1].addrs) = MaxAddrs
    /\ response[1].opts[harness.last.option][1].addrs[1]
           # response[1].opts[harness.last.option][1].addrs[MaxAddrs]

\* The codes set_options runs update_option for, in its order, for a
\* machine record m.
optionsOf(m) ==
    << DHO_ROUTERS, DHO_NAME_SERVERS, DHO_DOMAIN_NAME_SERVERS,
       DHO_NTP_SERVERS >>
    \o (IF m.mqtt_server.null THEN << >> ELSE << DHO_MQTT_SERVER >>)
    \o << DHO_INTERFACE_MTU, DHO_SUBNET_MASK, DHO_BROADCAST_ADDRESS,
          DHO_HOST_NAME, DHO_BOOT_FILE_NAME >>
    \o (IF m.client_type = << >> THEN << >>
        ELSE << DHO_VENDOR_CLASS_IDENTIFIER >>)

\* C23: when overwriting one option in set_options raises an exception,
\* the failure is confined to that option: update_option sets the drop
\* status, the exception does not leave set_options, every later option of
\* set_options is still processed, and pkt4_send still returns 0.
C23_OptionFailureConfined ==
    \A r \in Req :
        (/\ send[r].ran /\ send[r].loaded
         /\ \E i \in 1..Len(send[r].ops) : send[r].ops[i].threw)
            => /\ handle[r].status = NEXT_STEP_DROP
               /\ [i \in 1..Len(send[r].ops) |-> send[r].ops[i].option]
                      = optionsOf(machineOf(r))
               /\ ~send[r].threw
               /\ send[r].ret = 0

\* C24: after any sequence of pkt4_receive invocations the total-requests
\* counter equals the number of invocations (relayed or not), and the
\* dropped-requests counter has been incremented at most once per
\* invocation, so that dropped never exceeds total.
C24_CountersFollowInvocations ==
    /\ total_requests = Cardinality({ r \in Req : recv[r].ran })
    /\ droppedCalls(DropReasons)
           = Cardinality({ r \in Req : receiveDropReason(r) # "" })
    /\ droppedCalls(DropReasons) <= total_requests

\* C24's case: every request has been through pkt4_receive, one of them
\* not relayed and dropped, another one not dropped.
C24_Witness ==
    /\ total_requests = NumReq
    /\ dropped_requests["NonRelayedPacket"] = 1
    /\ \E r \in Req : recv[r].ran /\ receiveDropReason(r) = ""

\* The i-th parameter of the loaded configuration makes shim_load fail: it
\* is present and not a string, or it is the provisioning-server address
\* and is not a valid IPv4 address.
badParam(i) ==
    /\ library.params[ParamNames[i]].present
    /\ \/ library.params[ParamNames[i]].type # "string"
       \/ /\ i = 1
          /\ library.params[ParamNames[i]].value # "192.0.2.10"

\* The i-th parameter was accepted: shim_load had a handle, the parameter
\* is present and no parameter up to it makes shim_load fail.
acceptedParam(i) ==
    /\ ~library.handle_null
    /\ library.params[ParamNames[i]].present
    /\ \A j \in 1..i : ~badParam(j)

\* C25: shim_load registers the pkt4_receive and pkt4_send callouts if and
\* only if it returns 0: a null handle, a parameter that is present but not
\* a string, or an invalid or non-IPv4 provisioning-server address makes it
\* return 1 and register neither callout, and the configuration values
\* accepted before the failing parameter stay applied.
C25_RegisteredIffLoaded ==
    library.loaded
        => /\ library.ret \in {0, 1}
           /\ library.registered
                  = IF library.ret = 0 THEN {"pkt4_receive", "pkt4_send"}
                    ELSE {}
           /\ library.ret = 1
                  <=> \/ library.handle_null
                      \/ \E i \in 1..Len(ParamNames) : badParam(i)
           /\ \A i \in 1..Len(ParamNames) :
                  acceptedParam(i)
                      <=> \E k \in 1..Len(library.config) :
                              library.config[k]
                                  = [fn |-> ConfigSetters[i],
                                     arg |-> library.params[ParamNames[i]].value]
           /\ \A k \in 1..Len(library.config) :
                  \E i \in 1..Len(ParamNames) :
                      /\ library.config[k].fn = ConfigSetters[i]
                      /\ \A l \in 1..(k - 1) :
                             \E j \in 1..(i - 1) :
                                 library.config[l].fn = ConfigSetters[j]

\* C25's case: shim_load accepted the provisioning server and the API URL,
\* then met an NTP parameter that is not a string and returned 1.
C25_Witness ==
    /\ library.loaded /\ ~library.handle_null
    /\ library.ret = 1
    /\ library.registered = {}
    /\ Len(library.config) = 2
    /\ library.params["carbide-ntpserver"].type = "integer"
    /\ library.params["carbide-nameservers"].type = "string"

=============================================================================
